---- MODULE Spec2Model ----
(***************************************************************************)
(* Attribution ledger of the Stirlingshire-Boardy service: the             *)
(* introduction, hire and placement tables, the audit log, and the         *)
(* request handlers of IntroductionsService, HiresService and              *)
(* PlacementsService.  Every handler is an async function; each await on   *)
(* the data store or on an external collaborator is one atomic step, and   *)
(* steps of concurrent requests interleave freely.                         *)
(***************************************************************************)
EXTENDS Integers, Naturals, Sequences, FiniteSets, Bags, TLC

VARIABLES
    intros,      \* table "introduction": row id = index
    hires,       \* table "hire": row id = index
    placements,  \* table "placement": row id = index
    audit,       \* table "audit_log" as a bag of <<entityType, entityId, eventType>>
    notes,       \* outbound effects (meeting bookings, Slack, partner webhooks) as a bag
    pc,          \* per request slot: the await the handler is suspended at
    call,        \* per request slot: the operation and its arguments
    loc,         \* per request slot: the handler's local variables
    result,      \* per request slot: what the handler returned or threw
    consecutiveFailures,  \* BrokerCheckSyncService.consecutiveFailures
    sync,        \* per reconciliation run: its candidate list and result summary
    vendorTable  \* table "vendor": row id = index

vars == <<intros, hires, placements, audit, notes, pc, call, loc, result,
          consecutiveFailures, sync, vendorTable>>

\* the state of the reconciliation scheduler
syncVars == <<consecutiveFailures, sync>>

-----------------------------------------------------------------------------
(* Bounds of the model *)

LedgerIntros == 2   \* introductions present when the attribution handlers start
LedgerHires == 1    \* hires present when the attribution handlers start

\* request slots, one request each: two requests of the internal API (or of
\* the partner-facing create endpoint) and one partner status update in flight
InternalSlots == {"p1", "p2"}
PartnerSlots == {"p3"}
\* @CurrentVendor(): the partner the API key of a partner slot resolves to
CurrentVendor(p) == "v1"
\* reconciliation runs: the weekly cron job and the manual trigger endpoint
SyncSlots == {"cron", "manual"}
\* the caller of the sweep over PENDING_NOTIFY placements
SweepSlots == {"sweep"}
Procs == InternalSlots \cup PartnerSlots \cup SyncSlots \cup SweepSlots

-----------------------------------------------------------------------------
(* Data domains *)

IntroductionStatus == {"OPEN", "PLACED", "EXPIRED", "CANCELLED"}

\* UpdateIntroductionDto.status is optional: "NONE" is the absent field
UpdateStatusInputs == IntroductionStatus \cup {"NONE"}

Vendors == {"v1", "v2"}
Crds == {555}
ConversationIds == {"c1", "c2"}
FirmEntities == {"Stirlingshire BD LLC"}

\* instants as <<year, month, day, hour>> in the server's calendar
IntroDates == { <<2024, 1, 15, 9>>, <<2024, 2, 15, 9>> }
\* hire.hire_date is a DATE column: midnight
HireDates == { <<2024, 2, 10, 0>>, <<2025, 1, 15, 0>>, <<2025, 2, 15, 0>> }

\* an optional number that is absent (undefined)
Undefined == 0 - 1

\* vendor.placement_terms of the partners: v1 has no terms, v2 has a 13 month
\* window and a flat fee, v3 has a window of 0 months and a fee percentage
VendorWindow(v) == IF v = "v2" THEN 13 ELSE IF v = "v3" THEN 0 ELSE Undefined
VendorFlatFee(v) == IF v = "v2" THEN 5000 ELSE Undefined
VendorFeePercentage(v) == IF v = "v3" THEN 20 ELSE Undefined

DefaultAttributionWindowMonths == 12

NoLoc == [introductionId |-> 0, hireId |-> 0, placementId |-> 0,
          oldStatus |-> "NONE", created |-> 0, feeAmount |-> Undefined,
          pending |-> << >>, successCount |-> 0]
NoCall == [op |-> "none"]
NoResult == [kind |-> "none", id |-> 0]

Ok(id) == [kind |-> "ok", id |-> id]
Null == [kind |-> "null", id |-> 0]
Err(e) == [kind |-> e, id |-> 0]
ErrorKinds == {"NotFound", "BadRequest", "UniqueViolation", "Conflict", "Unauthorized"}

Idle(p) == pc[p] = "idle"

\* a run that has not started: no candidates, the zeroed BrokerCheckSyncResult
NoSync == [startFailures |-> 0, candidates |-> << >>, remaining |-> << >>,
           looked |-> << >>, totalFetched |-> 0, newAdvisors |-> 0,
           hiresCreated |-> 0, placementsCreated |-> 0, errors |-> << >>,
           running |-> FALSE]

AddEntry(bag, e) == bag (+) SetToBag({e})

-----------------------------------------------------------------------------
(* Partners *)

VendorNames == {"Boardy", "Acme"}
\* keys that callers supply, and keys that randomBytes(32) yields
SuppliedKeys == {"k1", "k2"}
RandomKeys == {"r1", "r2"}
ApiKeys == SuppliedKeys \cup RandomKeys

\* a digest that is the same for every key
HashApiKeyConstant(apiKey) == <<"sha256", "">>

\* createHash('sha256').update(apiKey).digest('hex'): one digest per key
HashApiKey(apiKey) == <<"sha256", apiKey>>

VendorRow(name, apiKey, active) ==
    [name |-> name, apiKeyHash |-> HashApiKey(apiKey), isActive |-> active]

\* the vendor table after the first partner was created
RegisteredVendors == << VendorRow("Boardy", "k1", TRUE) >>

-----------------------------------------------------------------------------
(* Dates *)

GetFullYear(d) == d[1]
GetMonth(d) == d[2] - 1
\* Date comparison is by instant; this is order-isomorphic to epoch millis
TimeValue(d) == ((d[1] * 12 + (d[2] - 1)) * 31 + (d[3] - 1)) * 24 + d[4]

MonthsDiff(introDate, hireDate) ==
    (GetFullYear(hireDate) - GetFullYear(introDate)) * 12
        + (GetMonth(hireDate) - GetMonth(introDate))

\* terms.attributionWindowMonths || this.defaultAttributionWindowMonths
\* (|| takes the default for an absent field and for 0 alike)
AttributionMonths(v) ==
    IF VendorWindow(v) > 0 THEN VendorWindow(v) ELSE DefaultAttributionWindowMonths

-----------------------------------------------------------------------------
(* Data store *)

\* unique index introduction(vendor_id, candidate_crd, conversation_id)
IntroTripleTaken(v, crd, conv) ==
    \E i \in DOMAIN intros :
        /\ intros[i].vendorId = v
        /\ intros[i].candidateCrd = crd
        /\ intros[i].conversationId = conv

\* unique index placement(introduction_id)
PlacementIntroTakenNoIndex(introId) == FALSE

PlacementIntroTaken(introId) ==
    \E k \in DOMAIN placements : placements[k].introductionId = introId

SetIntroStatus(id, st) == [intros EXCEPT ![id].status = st]

-----------------------------------------------------------------------------
(* IntroductionsService.updateStatus(vendorId, id, dto) *)

\* prisma.introduction.findFirst({ where: { id, vendorId } })
FindIntroForVendor(v, id) ==
    IF id \in DOMAIN intros /\ intros[id].vendorId = v THEN id ELSE 0

\* a controller that takes the partner from the request path
EffectiveVendorIdOfPath(vendorId, vendor) == vendorId

\* const effectiveVendorId = vendor.id !== vendorId ? vendor.id : vendorId, for
\* the :vendorId of the path and the vendor the API key authenticated
EffectiveVendorId(vendorId, vendor) == IF vendor # vendorId THEN vendor ELSE vendorId

\* request arrives at PATCH /api/vendors/:vendorId/introductions/:id; first
\* await: the lookup, then the two early returns
UpdateStatusCall(p) ==
    /\ p \in PartnerSlots /\ Idle(p)
    /\ \E id \in 1..LedgerIntros, st \in UpdateStatusInputs, vendorId \in Vendors :
        LET v == EffectiveVendorId(vendorId, CurrentVendor(p))
            existing == FindIntroForVendor(v, id) IN
        /\ call' = [call EXCEPT ![p] = [op |-> "UpdateStatus", vendorId |-> v,
                                        id |-> id, status |-> st]]
        /\ IF existing = 0
             THEN /\ pc' = [pc EXCEPT ![p] = "done"]
                  /\ result' = [result EXCEPT ![p] = Err("NotFound")]
                  /\ loc' = [loc EXCEPT ![p] = NoLoc]
             ELSE IF st # "NONE" /\ intros[existing].status = st
             THEN /\ pc' = [pc EXCEPT ![p] = "done"]
                  /\ result' = [result EXCEPT ![p] = Ok(existing)]
                  /\ loc' = [loc EXCEPT ![p] = NoLoc]
             ELSE /\ pc' = [pc EXCEPT ![p] = "us_update"]
                  /\ result' = [result EXCEPT ![p] = NoResult]
                  /\ loc' = [loc EXCEPT ![p] =
                        [NoLoc EXCEPT !.introductionId = existing,
                                      !.oldStatus = intros[existing].status]]
    /\ UNCHANGED <<intros, hires, placements, audit, notes>>
    /\ UNCHANGED <<syncVars, vendorTable>>

\* prisma.introduction.update({ where: { id }, data: { status: dto.status } })
\* (an absent status writes nothing), auditService.log(STATUS_CHANGED), return.
\* The audit row is appended in the same step: no handler reads the audit log.
UpdateStatusWrite(p) ==
    /\ pc[p] = "us_update"
    /\ intros' = IF call[p].status = "NONE" THEN intros
                 ELSE SetIntroStatus(loc[p].introductionId, call[p].status)
    /\ audit' = AddEntry(audit, <<"INTRODUCTION", loc[p].introductionId, "STATUS_CHANGED">>)
    /\ pc' = [pc EXCEPT ![p] = "done"]
    /\ result' = [result EXCEPT ![p] = Ok(loc[p].introductionId)]
    /\ UNCHANGED <<hires, placements, notes, call, loc>>
    /\ UNCHANGED <<syncVars, vendorTable>>

\* GET /api/vendors/:vendorId/introductions/:id: IntroductionsService.findOne,
\* prisma.introduction.findFirst({ where: { id, vendorId } }), NotFound for null
FindOneCall(p) ==
    /\ p \in PartnerSlots /\ Idle(p)
    /\ \E id \in 1..LedgerIntros, vendorId \in Vendors :
        LET v == EffectiveVendorId(vendorId, CurrentVendor(p))
            existing == FindIntroForVendor(v, id) IN
        /\ call' = [call EXCEPT ![p] = [op |-> "FindOne", vendorId |-> v, id |-> id]]
        /\ result' = [result EXCEPT ![p] =
                          IF existing = 0 THEN Err("NotFound") ELSE Ok(existing)]
    /\ pc' = [pc EXCEPT ![p] = "done"]
    /\ loc' = [loc EXCEPT ![p] = NoLoc]
    /\ UNCHANGED <<intros, hires, placements, audit, notes>>
    /\ UNCHANGED <<syncVars, vendorTable>>

-----------------------------------------------------------------------------
(* PlacementsService.create(dto) *)

\* a lookup after which the scan resumes when the introduction is not OPEN
CreateFindIntroStepRescan(p, i) ==
    IF i \notin DOMAIN intros
      THEN /\ pc' = [pc EXCEPT ![p] = "done"]
           /\ result' = [result EXCEPT ![p] = Err("NotFound")]
      ELSE IF intros[i].status # "OPEN"
      THEN /\ pc' = [pc EXCEPT ![p] = IF call[p].op = "Match" THEN "m_scan" ELSE "done"]
           /\ result' = [result EXCEPT ![p] = IF call[p].op = "Match" THEN NoResult
                                               ELSE Err("BadRequest")]
      ELSE /\ pc' = [pc EXCEPT ![p] = "pc_hire"]
           /\ result' = [result EXCEPT ![p] = NoResult]

\* findUnique(introduction); NotFound; status must be OPEN
CreateFindIntroStep(p, i) ==
    IF i \notin DOMAIN intros
      THEN /\ pc' = [pc EXCEPT ![p] = "done"]
           /\ result' = [result EXCEPT ![p] = Err("NotFound")]
      ELSE IF intros[i].status # "OPEN"
      THEN /\ pc' = [pc EXCEPT ![p] = "done"]
           /\ result' = [result EXCEPT ![p] = Err("BadRequest")]
      ELSE /\ pc' = [pc EXCEPT ![p] = "pc_hire"]
           /\ result' = [result EXCEPT ![p] = NoResult]

\* request arrives at POST /api/placements with dto.feeAmount drawn from fees;
\* first await: findUnique(introduction)
PlacementCreateRequest(p, fees) ==
    /\ p \in InternalSlots /\ Idle(p)
    /\ \E i \in 1..(LedgerIntros + 1), h \in 1..(LedgerHires + 1), fee \in fees :
        /\ call' = [call EXCEPT ![p] = [op |-> "PlacementCreate",
                                        introductionId |-> i, hireId |-> h]]
        /\ loc' = [loc EXCEPT ![p] = [NoLoc EXCEPT !.introductionId = i, !.hireId = h,
                                                   !.feeAmount = fee]]
        /\ CreateFindIntroStep(p, i)
    /\ UNCHANGED <<intros, hires, placements, audit, notes>>
    /\ UNCHANGED <<syncVars, vendorTable>>

\* a request that leaves dto.feeAmount out
PlacementCreateCall(p) == PlacementCreateRequest(p, {Undefined})

\* dto.feeAmount: @IsOptional() @IsNumber() @Min(0)
FeeOverrides == {Undefined, 0, 2500}

\* a request that may carry a fee override
PlacementCreateFee(p) == PlacementCreateRequest(p, FeeOverrides)

\* this.create(...) called from matchHireToIntroductions: findUnique(introduction)
CreateFindIntro(p) ==
    /\ pc[p] = "pc_intro"
    /\ CreateFindIntroStep(p, loc[p].introductionId)
    /\ UNCHANGED <<intros, hires, placements, audit, notes, call, loc>>
    /\ UNCHANGED <<syncVars, vendorTable>>

\* a window check that rejects nothing
OutsideWindowNever(i, h) == FALSE

\* the window check of create: only monthsDiff > attributionMonths rejects
OutsideWindow(i, h) ==
    MonthsDiff(intros[i].introTimestamp, hires[h].hireDate)
        > AttributionMonths(intros[i].vendorId)

\* findUnique(hire); NotFound; CRD match; attribution window
CreateFindHire(p) ==
    /\ pc[p] = "pc_hire"
    /\ LET i == loc[p].introductionId
           h == loc[p].hireId IN
        IF h \notin DOMAIN hires
          THEN /\ pc' = [pc EXCEPT ![p] = "done"]
               /\ result' = [result EXCEPT ![p] = Err("NotFound")]
          ELSE IF intros[i].candidateCrd # hires[h].crdNumber \/ OutsideWindow(i, h)
          THEN /\ pc' = [pc EXCEPT ![p] = "done"]
               /\ result' = [result EXCEPT ![p] = Err("BadRequest")]
          ELSE /\ pc' = [pc EXCEPT ![p] = "pc_insert"]
               /\ UNCHANGED result
    /\ UNCHANGED <<intros, hires, placements, audit, notes, call, loc>>
    /\ UNCHANGED <<syncVars, vendorTable>>

\* a resolution that tests the override for truthiness
ResolveFeeTruthy(feeAmount, v) ==
    IF feeAmount > 0 THEN feeAmount
    ELSE IF VendorFlatFee(v) > 0 THEN VendorFlatFee(v)
    ELSE 0

\* let feeAmount = dto.feeAmount; if (feeAmount === undefined) { if (terms.flatFee)
\* ... else if (terms.feePercentage) feeAmount = 0; else feeAmount = 0 }
\* (terms.flatFee is tested for truthiness: absent and 0 alike fall through)
ResolveFee(feeAmount, v) ==
    IF feeAmount # Undefined THEN feeAmount
    ELSE IF VendorFlatFee(v) # Undefined /\ VendorFlatFee(v) # 0 THEN VendorFlatFee(v)
    ELSE IF VendorFeePercentage(v) # Undefined /\ VendorFeePercentage(v) # 0 THEN 0
    ELSE 0

\* prisma.placement.create: the unique index on introduction_id rejects a second row
CreateInsertPlacement(p) ==
    /\ pc[p] = "pc_insert"
    /\ LET i == loc[p].introductionId
           h == loc[p].hireId IN
        IF PlacementIntroTaken(i)
          THEN /\ pc' = [pc EXCEPT ![p] = "done"]
               /\ result' = [result EXCEPT ![p] = Err("UniqueViolation")]
               /\ UNCHANGED <<placements, loc>>
          ELSE /\ placements' = Append(placements,
                    [vendorId |-> intros[i].vendorId, introductionId |-> i,
                     hireId |-> h, candidateCrd |-> hires[h].crdNumber,
                     hireDate |-> hires[h].hireDate,
                     feeAmount |-> ResolveFee(loc[p].feeAmount, intros[i].vendorId),
                     status |-> "PENDING_NOTIFY"])
               /\ loc' = [loc EXCEPT ![p].placementId = Len(placements) + 1,
                                     ![p].created = loc[p].created + 1]
               /\ pc' = [pc EXCEPT ![p] = "pc_update"]
               /\ UNCHANGED result
    /\ UNCHANGED <<intros, hires, audit, notes, call>>
    /\ UNCHANGED <<syncVars, vendorTable>>

\* prisma.introduction.update({ where: { id }, data: { status: PLACED } }), then
\* auditService.log(PLACEMENT CREATED), auditService.log(INTRODUCTION STATUS_CHANGED).
\* The audit rows are appended in the same step: no handler reads the audit log.
CreateMarkPlaced(p) ==
    /\ pc[p] = "pc_update"
    /\ intros' = SetIntroStatus(loc[p].introductionId, "PLACED")
    /\ audit' = AddEntry(AddEntry(audit, <<"PLACEMENT", loc[p].placementId, "CREATED">>),
                         <<"INTRODUCTION", loc[p].introductionId, "STATUS_CHANGED">>)
    /\ pc' = [pc EXCEPT ![p] = "pc_notify"]
    /\ UNCHANGED <<hires, placements, notes, call, loc, result>>
    /\ UNCHANGED <<syncVars, vendorTable>>

\* vendor.webhook_url is configured for v1 only
VendorHasWebhook(v) == v = "v1"

\* NotificationsService.notifyVendorOfPlacement(vendorId, notification): no
\* webhook: false; axios.post succeeds or throws, and either outcome is audited
\* as NOTIFIED_VENDOR; the set of <<answer, audit log>> pairs it can yield
NotifyVendorOfPlacement(v, k) ==
    IF VendorHasWebhook(v)
      THEN { <<delivered, AddEntry(audit, <<"PLACEMENT", k, "NOTIFIED_VENDOR">>)>> :
                delivered \in BOOLEAN }
      ELSE { <<FALSE, audit>> }

\* const notified = await notifyVendorOfPlacement(...); when it is false the
\* rest of create runs in the same step: sendInternalNotification,
\* slackService.notifyNewPlacement, return
CreateNotify(p) ==
    /\ pc[p] = "pc_notify"
    /\ LET k == loc[p].placementId IN
       \E outcome \in NotifyVendorOfPlacement(placements[k].vendorId, k) :
        /\ audit' = outcome[2]
        /\ IF outcome[1]
             THEN /\ pc' = [pc EXCEPT ![p] = "pc_notified"]
                  /\ UNCHANGED <<notes, result>>
             ELSE /\ notes' = AddEntry(notes, <<"SLACK_PLACEMENT", k>>)
                  /\ pc' = [pc EXCEPT ![p] = "done"]
                  /\ result' = [result EXCEPT ![p] = Ok(k)]
    /\ UNCHANGED <<intros, hires, placements, call, loc>>
    /\ UNCHANGED <<syncVars, vendorTable>>

\* if (notified) prisma.placement.update({ where: { id }, data: { status:
\* NOTIFIED } }): the row's current status is not looked at; then
\* sendInternalNotification, slackService.notifyNewPlacement, return
CreateMarkNotified(p) ==
    /\ pc[p] = "pc_notified"
    /\ LET k == loc[p].placementId IN
        /\ placements' = [placements EXCEPT ![k].status = "NOTIFIED"]
        /\ notes' = AddEntry(notes, <<"SLACK_PLACEMENT", k>>)
        /\ result' = [result EXCEPT ![p] = Ok(k)]
    /\ pc' = [pc EXCEPT ![p] = "done"]
    /\ UNCHANGED <<intros, hires, audit, call, loc>>
    /\ UNCHANGED <<syncVars, vendorTable>>

-----------------------------------------------------------------------------
(* PlacementsService.matchHireToIntroductions(hireId) *)

\* request arrives at POST /api/placements/match/:hireId; findUnique(hire)
MatchCall(p) ==
    /\ p \in InternalSlots /\ Idle(p)
    /\ \E h \in 1..(LedgerHires + 1) :
        /\ call' = [call EXCEPT ![p] = [op |-> "Match", hireId |-> h]]
        /\ loc' = [loc EXCEPT ![p] = [NoLoc EXCEPT !.hireId = h]]
        /\ IF h \in DOMAIN hires
             THEN /\ pc' = [pc EXCEPT ![p] = "m_scan"]
                  /\ result' = [result EXCEPT ![p] = NoResult]
             ELSE /\ pc' = [pc EXCEPT ![p] = "done"]
                  /\ result' = [result EXCEPT ![p] = Err("NotFound")]
    /\ UNCHANGED <<intros, hires, placements, audit, notes>>
    /\ UNCHANGED <<syncVars, vendorTable>>

\* the same ordering, descending
OrderedBeforeDesc(a, b) == TimeValue(a) >= TimeValue(b)

\* orderBy: { introTimestamp: 'asc' }
OrderedBefore(a, b) == TimeValue(a) <= TimeValue(b)

\* IntroductionsService.findOpenIntroductionsForCrd: the OPEN introductions of
\* the CRD, ascending by introTimestamp; rows with equal timestamps come in
\* whatever order the data store yields, so this is the set of possible answers
FindOpenIntroductionsForCrd(crd) ==
    LET open == { i \in DOMAIN intros :
                    intros[i].candidateCrd = crd /\ intros[i].status = "OPEN" }
        n == Cardinality(open)
    IN { s \in [1..n -> open] :
            /\ \A a, b \in 1..n : a # b => s[a] # s[b]
            /\ \A a, b \in 1..n : a < b =>
                 OrderedBefore(intros[s[a]].introTimestamp, intros[s[b]].introTimestamp) }

\* the test of the scan with a strict window comparison
AcceptsStrict(introRow, hireRow) ==
    /\ MonthsDiff(introRow.introTimestamp, hireRow.hireDate)
          < AttributionMonths(introRow.vendorId)
    /\ TimeValue(hireRow.hireDate) >= TimeValue(introRow.introTimestamp)

\* the test of the scan: monthsDiff <= attributionMonths && hireDate >= introDate
Accepts(introRow, hireRow) ==
    /\ MonthsDiff(introRow.introTimestamp, hireRow.hireDate)
          <= AttributionMonths(introRow.vendorId)
    /\ TimeValue(hireRow.hireDate) >= TimeValue(introRow.introTimestamp)

\* for (const intro of openIntros): the first accepted one, 0 when there is none
FirstAccepted(openIntros, h) ==
    LET hit == { k \in DOMAIN openIntros : Accepts(intros[openIntros[k]], hires[h]) }
    IN IF hit = {} THEN 0
       ELSE openIntros[CHOOSE k \in hit : \A j \in hit : k <= j]

\* findOpenIntroductionsForCrd, then the scan; the first accepted introduction
\* goes to this.create({ introductionId, hireId })
MatchScan(p) ==
    /\ pc[p] = "m_scan"
    /\ \E openIntros \in FindOpenIntroductionsForCrd(hires[loc[p].hireId].crdNumber) :
        LET pick == FirstAccepted(openIntros, loc[p].hireId) IN
        IF pick = 0
          THEN /\ pc' = [pc EXCEPT ![p] = "done"]
               /\ result' = [result EXCEPT ![p] = Null]
               /\ UNCHANGED loc
          ELSE /\ pc' = [pc EXCEPT ![p] = "pc_intro"]
               /\ loc' = [loc EXCEPT ![p].introductionId = pick]
               /\ UNCHANGED result
    /\ UNCHANGED <<intros, hires, placements, audit, notes, call>>
    /\ UNCHANGED <<syncVars, vendorTable>>

-----------------------------------------------------------------------------
(* The attribution handlers over a ledger of OPEN introductions and hires *)

IntroRow(v, crd, conv, ts) ==
    [vendorId |-> v, candidateCrd |-> crd, conversationId |-> conv,
     introTimestamp |-> ts, status |-> "OPEN"]

HireRow(crd, firm, date) ==
    [crdNumber |-> crd, firmEntity |-> firm, hireDate |-> date]

\* the idempotency key of the k-th introduction of the ledger
LedgerVendor(k) == IF k % 2 = 1 THEN "v1" ELSE "v2"
LedgerConversation(k) == IF k <= 2 THEN "c1" ELSE "c2"

\* ledgers that Introduction create and Hire create leave behind: LedgerIntros
\* OPEN introductions with pairwise different idempotency keys, LedgerHires hires
InitialIntroLedgers ==
    { s \in [1..LedgerIntros -> { IntroRow(v, crd, conv, ts) :
                                 v \in Vendors, crd \in Crds,
                                 conv \in ConversationIds, ts \in IntroDates }] :
        \A k \in 1..LedgerIntros : /\ s[k].vendorId = LedgerVendor(k)
                                /\ s[k].conversationId = LedgerConversation(k) }

InitialHireLedgers ==
    { s \in [1..LedgerHires -> { HireRow(crd, firm, date) :
                                crd \in Crds, firm \in FirmEntities, date \in HireDates }] :
        \A a, b \in 1..LedgerHires : a < b => TimeValue(s[a].hireDate) < TimeValue(s[b].hireDate) }

IdleSlots ==
    /\ pc = [p \in Procs |-> "idle"]
    /\ call = [p \in Procs |-> NoCall]
    /\ loc = [p \in Procs |-> NoLoc]
    /\ result = [p \in Procs |-> NoResult]
    /\ sync = [p \in SyncSlots |-> NoSync]

Init ==
    /\ intros \in InitialIntroLedgers
    /\ hires \in InitialHireLedgers
    /\ placements = << >>
    /\ audit = EmptyBag
    /\ notes = EmptyBag
    /\ IdleSlots
    /\ vendorTable = RegisteredVendors
    /\ consecutiveFailures = 0

Next ==
    \E p \in Procs :
        \/ UpdateStatusCall(p)
        \/ UpdateStatusWrite(p)
        \/ PlacementCreateCall(p)
        \/ CreateFindIntro(p)
        \/ CreateFindHire(p)
        \/ CreateInsertPlacement(p)
        \/ CreateMarkPlaced(p)
        \/ CreateNotify(p)
        \/ CreateMarkNotified(p)
        \/ MatchCall(p)
        \/ MatchScan(p)

Spec == Init /\ [][Next]_vars

-----------------------------------------------------------------------------
(* IntroductionsService.create(vendorId, dto) *)

\* a lookup that finds nothing, whatever the table holds
FindIntroByTripleNever(v, crd, conv) == 0

\* prisma.introduction.findUnique({ where: { vendorId_candidateCrd_conversationId } }):
\* the id of the row, 0 for null
FindIntroByTriple(v, crd, conv) ==
    IF IntroTripleTaken(v, crd, conv)
      THEN CHOOSE i \in DOMAIN intros :
              /\ intros[i].vendorId = v
              /\ intros[i].candidateCrd = crd
              /\ intros[i].conversationId = conv
      ELSE 0

\* IntroductionsService.create(vendorId, dto) for a vendorId among owners; first
\* await: the idempotency lookup; an existing row is returned as it is
IntroCreateRequest(p, owners) ==
    /\ Idle(p)
    /\ \E v \in owners, crd \in Crds, conv \in ConversationIds,
          ts \in IntroDates, meeting \in BOOLEAN :
        LET existing == FindIntroByTriple(v, crd, conv) IN
        /\ call' = [call EXCEPT ![p] = [op |-> "IntroCreate", vendorId |-> v,
                        candidateCrd |-> crd, conversationId |-> conv,
                        introTimestamp |-> ts, meeting |-> meeting]]
        /\ IF existing # 0
             THEN /\ pc' = [pc EXCEPT ![p] = "done"]
                  /\ result' = [result EXCEPT ![p] = Ok(existing)]
                  /\ loc' = [loc EXCEPT ![p] =
                        [NoLoc EXCEPT !.oldStatus = intros[existing].status]]
             ELSE /\ pc' = [pc EXCEPT ![p] = IF meeting THEN "ic_book" ELSE "ic_insert"]
                  /\ result' = [result EXCEPT ![p] = NoResult]
                  /\ loc' = [loc EXCEPT ![p] = NoLoc]
    /\ UNCHANGED <<intros, hires, placements, audit, notes>>
    /\ UNCHANGED <<syncVars, vendorTable>>

\* requests of any authenticated partner arrive at
\* POST /api/vendors/:vendorId/introductions
IntroCreateCall(p) == p \in InternalSlots /\ IntroCreateRequest(p, Vendors)

\* IntroductionsController.create for the partner of the slot: the path may
\* name any partner
IntroCreateAsPartner(p) ==
    /\ p \in PartnerSlots
    /\ IntroCreateRequest(p, { EffectiveVendorId(vendorId, CurrentVendor(p)) :
                                  vendorId \in Vendors })

\* calendarService.bookMeeting inside try/catch: a booking, null, or a caught throw
IntroCreateBook(p) ==
    /\ pc[p] = "ic_book"
    /\ \E booked \in BOOLEAN :
        notes' = IF booked
                   THEN AddEntry(notes, <<"MEETING", call[p].vendorId, call[p].conversationId>>)
                   ELSE notes
    /\ pc' = [pc EXCEPT ![p] = "ic_insert"]
    /\ UNCHANGED <<intros, hires, placements, audit, call, loc, result>>
    /\ UNCHANGED <<syncVars, vendorTable>>

\* prisma.introduction.create with status OPEN: the unique index on the triple
\* makes it throw when the row exists by now; nothing catches that.
\* Then auditService.log(INTRODUCTION CREATED), in the same step.
IntroCreateInsert(p) ==
    /\ pc[p] = "ic_insert"
    /\ IF IntroTripleTaken(call[p].vendorId, call[p].candidateCrd, call[p].conversationId)
         THEN /\ pc' = [pc EXCEPT ![p] = "done"]
              /\ result' = [result EXCEPT ![p] = Err("UniqueViolation")]
              /\ UNCHANGED <<intros, audit, loc>>
         ELSE /\ intros' = Append(intros,
                    IntroRow(call[p].vendorId, call[p].candidateCrd,
                             call[p].conversationId, call[p].introTimestamp))
              /\ audit' = AddEntry(audit, <<"INTRODUCTION", Len(intros) + 1, "CREATED">>)
              /\ loc' = [loc EXCEPT ![p].introductionId = Len(intros) + 1]
              /\ pc' = [pc EXCEPT ![p] = "ic_notify"]
              /\ UNCHANGED result
    /\ UNCHANGED <<hires, placements, notes, call>>
    /\ UNCHANGED <<syncVars, vendorTable>>

\* vendor.findUnique, calendlyService.getBookingUrl, slackService.notifyNewIntroduction,
\* return the new row
IntroCreateNotify(p) ==
    /\ pc[p] = "ic_notify"
    /\ notes' = AddEntry(notes, <<"SLACK_INTRODUCTION", loc[p].introductionId>>)
    /\ pc' = [pc EXCEPT ![p] = "done"]
    /\ result' = [result EXCEPT ![p] = Ok(loc[p].introductionId)]
    /\ UNCHANGED <<intros, hires, placements, audit, call, loc>>
    /\ UNCHANGED <<syncVars, vendorTable>>

InitIntro ==
    /\ intros = << >>
    /\ hires = << >>
    /\ placements = << >>
    /\ audit = EmptyBag
    /\ notes = EmptyBag
    /\ IdleSlots
    /\ vendorTable = RegisteredVendors
    /\ consecutiveFailures = 0

NextIntro ==
    \E p \in Procs :
        \/ IntroCreateCall(p)
        \/ IntroCreateBook(p)
        \/ IntroCreateInsert(p)
        \/ IntroCreateNotify(p)
        \/ UpdateStatusCall(p)
        \/ UpdateStatusWrite(p)

SpecIntro == InitIntro /\ [][NextIntro]_vars

\* the introduction endpoints as one partner calls them, over a ledger that
\* holds introductions of two partners
NextPartner ==
    \E p \in Procs :
        \/ IntroCreateAsPartner(p)
        \/ IntroCreateBook(p)
        \/ IntroCreateInsert(p)
        \/ IntroCreateNotify(p)
        \/ FindOneCall(p)
        \/ UpdateStatusCall(p)
        \/ UpdateStatusWrite(p)

SpecPartner == Init /\ [][NextPartner]_vars

-----------------------------------------------------------------------------
(* HiresService.create(dto, auditSource) *)

HireCrds == {555, 556}
HireFirms == {"Stirlingshire BD LLC", "Stirlingshire RIA LLC"}

\* the rows prisma.hire.findFirst({ where: { crdNumber, firmEntity, hireDate } })
\* can return: no index makes the triple unique, findFirst yields any match
FindHireByTriple(crd, firm, date) ==
    { h \in DOMAIN hires :
        /\ hires[h].crdNumber = crd
        /\ hires[h].firmEntity = firm
        /\ hires[h].hireDate = date }

\* request arrives at POST /api/hires; first await: the duplicate lookup
HireCreateCall(p) ==
    /\ p \in InternalSlots /\ Idle(p)
    /\ \E crd \in HireCrds, firm \in HireFirms, date \in HireDates :
        LET existing == FindHireByTriple(crd, firm, date) IN
        /\ call' = [call EXCEPT ![p] = [op |-> "HireCreate", crdNumber |-> crd,
                                        firmEntity |-> firm, hireDate |-> date]]
        /\ IF existing # {}
             THEN /\ pc' = [pc EXCEPT ![p] = "done"]
                  /\ \E h \in existing : result' = [result EXCEPT ![p] = Ok(h)]
             ELSE /\ pc' = [pc EXCEPT ![p] = "hc_insert"]
                  /\ result' = [result EXCEPT ![p] = NoResult]
    /\ loc' = [loc EXCEPT ![p] = NoLoc]
    /\ UNCHANGED <<intros, hires, placements, audit, notes>>
    /\ UNCHANGED <<syncVars, vendorTable>>

\* prisma.hire.create, auditService.log(HIRE CREATED) in the same step, return
HireCreateInsert(p) ==
    /\ pc[p] = "hc_insert"
    /\ hires' = Append(hires,
          HireRow(call[p].crdNumber, call[p].firmEntity, call[p].hireDate))
    /\ audit' = AddEntry(audit, <<"HIRE", Len(hires) + 1, "CREATED">>)
    /\ loc' = [loc EXCEPT ![p].hireId = Len(hires) + 1, ![p].created = 1]
    /\ pc' = [pc EXCEPT ![p] = "done"]
    /\ result' = [result EXCEPT ![p] = Ok(Len(hires) + 1)]
    /\ UNCHANGED <<intros, placements, notes, call>>
    /\ UNCHANGED <<syncVars, vendorTable>>

NextHire ==
    \E p \in Procs :
        \/ HireCreateCall(p)
        \/ HireCreateInsert(p)

SpecHire == InitIntro /\ [][NextHire]_vars


-----------------------------------------------------------------------------
(* Direct Placement create calls against hires of any candidate *)

\* hires of the ledger whose CRD may differ from the introductions' candidate
CreateHireLedgers ==
    { s \in [1..LedgerHires -> { HireRow(crd, firm, date) :
                                crd \in HireCrds, firm \in FirmEntities, date \in HireDates }] :
        \A a, b \in 1..LedgerHires : a < b => TimeValue(s[a].hireDate) < TimeValue(s[b].hireDate) }

InitCreate ==
    /\ intros \in InitialIntroLedgers
    /\ hires \in CreateHireLedgers
    /\ placements = << >>
    /\ audit = EmptyBag
    /\ notes = EmptyBag
    /\ IdleSlots
    /\ vendorTable = RegisteredVendors
    /\ consecutiveFailures = 0

NextCreate ==
    \E p \in Procs :
        \/ PlacementCreateCall(p)
        \/ CreateFindHire(p)
        \/ CreateInsertPlacement(p)
        \/ CreateMarkPlaced(p)
        \/ CreateNotify(p)
        \/ CreateMarkNotified(p)
        \/ UpdateStatusCall(p)
        \/ UpdateStatusWrite(p)

SpecCreate == InitCreate /\ [][NextCreate]_vars

-----------------------------------------------------------------------------
(* HiresController.create (POST /api/hires) over a ledger of OPEN introductions *)

\* the endpoint returns hiresService.create(dto) and calls nothing else
InitOnboard ==
    /\ intros \in InitialIntroLedgers
    /\ hires = << >>
    /\ placements = << >>
    /\ audit = EmptyBag
    /\ notes = EmptyBag
    /\ IdleSlots
    /\ vendorTable = RegisteredVendors
    /\ consecutiveFailures = 0

SpecOnboard == InitOnboard /\ [][NextHire]_vars

-----------------------------------------------------------------------------
(* BrokerCheckSyncService.runWeeklySync(): the reconciliation run *)

maxFailures == 5
IsEnabled == TRUE

\* new Date().toISOString().split('T')[0]: the day of the run
Today == <<2025, 1, 15, 0>>
\* advisor.firmName as the registry reports it
RegistryFirmName == "Stirlingshire"

\* a circuit breaker that never opens
CircuitOpenNever(n) == FALSE

\* this.consecutiveFailures >= this.maxFailures
CircuitOpen(n) == n >= maxFailures

SyncError(kind, crd) == [kind |-> kind, crd |-> crd]

OpenIntroductions == { i \in DOMAIN intros : intros[i].status = "OPEN" }

Orderings(S) ==
    { s \in [1..Cardinality(S) -> S] :
        \A a, b \in 1..Cardinality(S) : a # b => s[a] # s[b] }

\* the CRD of every OPEN introduction, one entry per introduction
CandidateCrdsPerIntroduction ==
    { [k \in DOMAIN s |-> intros[s[k]].candidateCrd] : s \in Orderings(OpenIntroductions) }

\* [...new Set(openIntroductions.map((i) => Number(i.candidateCrd)))]: the
\* distinct CRDs, in the order findMany (no orderBy) happened to yield them
CandidateCrds ==
    Orderings({ intros[i].candidateCrd : i \in OpenIntroductions })

\* the run is called; the enable flag and the circuit breaker are tested before
\* the first await (the alert of the open breaker, or findMany)
SyncStart(p) ==
    /\ p \in SyncSlots /\ Idle(p)
    /\ call' = [call EXCEPT ![p] = [op |-> "Sync"]]
    /\ IF ~IsEnabled
         THEN /\ pc' = [pc EXCEPT ![p] = "done"]
              /\ result' = [result EXCEPT ![p] = Ok(0)]
              /\ sync' = [sync EXCEPT ![p] =
                    [NoSync EXCEPT !.startFailures = consecutiveFailures,
                                   !.errors = <<SyncError("disabled", 0)>>]]
         ELSE IF CircuitOpen(consecutiveFailures)
         THEN /\ pc' = [pc EXCEPT ![p] = "sync_alert"]
              /\ UNCHANGED result
              /\ sync' = [sync EXCEPT ![p] =
                    [NoSync EXCEPT !.startFailures = consecutiveFailures,
                                   !.errors = <<SyncError("breaker", 0)>>]]
         ELSE /\ pc' = [pc EXCEPT ![p] = "sync_list"]
              /\ UNCHANGED result
              /\ sync' = [sync EXCEPT ![p] =
                    [NoSync EXCEPT !.startFailures = consecutiveFailures,
                                   !.running = TRUE]]
    /\ UNCHANGED <<intros, hires, placements, audit, notes, loc, consecutiveFailures>>
    /\ UNCHANGED vendorTable

\* notifySyncFailure: slackService.notifyOutreachUpdate inside try/catch, then
\* the run returns its result
SyncAlert(p) ==
    /\ pc[p] = "sync_alert"
    /\ notes' = AddEntry(notes, <<"SLACK_SYNC_FAILURE", 0>>)
    /\ pc' = [pc EXCEPT ![p] = "done"]
    /\ result' = [result EXCEPT ![p] = Ok(0)]
    /\ sync' = [sync EXCEPT ![p].running = FALSE]
    /\ UNCHANGED <<intros, hires, placements, audit, call, loc, consecutiveFailures>>
    /\ UNCHANGED vendorTable

\* prisma.introduction.findMany({ where: { status: 'OPEN' } }): it throws (outer
\* catch: the counter goes up, then the alert), or yields the candidates; with
\* no candidate the run returns at once
SyncList(p) ==
    /\ pc[p] = "sync_list"
    /\ \E failed \in BOOLEAN :
        IF failed
          THEN /\ consecutiveFailures' = consecutiveFailures + 1
               /\ sync' = [sync EXCEPT ![p].errors = Append(@, SyncError("sync", 0))]
               /\ pc' = [pc EXCEPT ![p] = "sync_alert"]
               /\ UNCHANGED result
          ELSE \E list \in CandidateCrds :
               /\ sync' = [sync EXCEPT ![p].candidates = list,
                                       ![p].remaining = list,
                                       ![p].totalFetched = Len(list),
                                       ![p].running = (list # << >>)]
               /\ pc' = [pc EXCEPT ![p] = IF list = << >> THEN "done" ELSE "sync_lookup"]
               /\ result' = [result EXCEPT ![p] =
                                IF list = << >> THEN Ok(0) ELSE result[p]]
               /\ UNCHANGED consecutiveFailures
    /\ UNCHANGED <<intros, hires, placements, audit, notes, call, loc>>
    /\ UNCHANGED vendorTable

\* the end of one iteration of for (const crd of candidateCrds), reached after
\* the rate-limit delay or from the catch block: the next candidate, or after
\* the last one this.consecutiveFailures = 0 and the batch audit entry
SyncAdvance(p, run) ==
    LET rest == Tail(run.remaining) IN
    /\ sync' = [sync EXCEPT ![p] = [run EXCEPT !.remaining = rest]]
    /\ call' = [call EXCEPT ![p] = [op |-> "Sync"]]
    /\ IF rest = << >>
         THEN /\ consecutiveFailures' = 0
              /\ pc' = [pc EXCEPT ![p] = "sync_audit"]
         ELSE /\ UNCHANGED consecutiveFailures
              /\ pc' = [pc EXCEPT ![p] = "sync_lookup"]

\* a loop body whose exception leaves runWeeklySync
SyncCaughtEscapes(p, run) ==
    /\ sync' = [sync EXCEPT ![p] = run]
    /\ pc' = [pc EXCEPT ![p] = "thrown"]
    /\ UNCHANGED <<call, consecutiveFailures>>

\* catch (error) of the loop body: result.errors.push, next candidate
SyncCaught(p, run) ==
    SyncAdvance(p, [run EXCEPT !.errors = Append(@, SyncError("candidate", Head(run.remaining)))])

\* apiClient.verifyAdvisorAtFirm(crd, firmCrd): it throws, or answers null, or
\* answers the advisor record and hiresService.create is called
SyncLookup(p) ==
    /\ pc[p] = "sync_lookup"
    /\ LET crd == Head(sync[p].remaining)
           run == [sync[p] EXCEPT !.looked = Append(@, crd)] IN
       \E answer \in {"advisor", "none", "throw"} :
          IF answer = "throw"
            THEN SyncCaught(p, run)
            ELSE /\ UNCHANGED consecutiveFailures
                 /\ IF answer = "none"
                      THEN /\ sync' = [sync EXCEPT ![p] = run]
                           /\ pc' = [pc EXCEPT ![p] = "sync_delay"]
                           /\ UNCHANGED call
                      ELSE /\ sync' = [sync EXCEPT ![p] =
                                 [run EXCEPT !.newAdvisors = @ + 1]]
                           /\ pc' = [pc EXCEPT ![p] = "hc_find"]
                           /\ call' = [call EXCEPT ![p] =
                                 [op |-> "HireCreate", crdNumber |-> crd,
                                  firmEntity |-> RegistryFirmName, hireDate |-> Today]]
    /\ UNCHANGED <<intros, hires, placements, audit, notes, loc, result>>
    /\ UNCHANGED vendorTable

\* hiresService.create called by the run: prisma.hire.findFirst; an existing
\* hire is returned, otherwise the insert follows; a failing query is caught
\* by the loop
SyncHireFind(p) ==
    /\ pc[p] = "hc_find"
    /\ LET existing == FindHireByTriple(call[p].crdNumber, call[p].firmEntity,
                                        call[p].hireDate) IN
       \E failed \in BOOLEAN :
          IF failed
            THEN /\ SyncCaught(p, sync[p])
                 /\ UNCHANGED <<loc, result>>
            ELSE /\ UNCHANGED <<syncVars, call>>
                 /\ loc' = [loc EXCEPT ![p] = NoLoc]
                 /\ IF existing # {}
                      THEN /\ pc' = [pc EXCEPT ![p] = "done"]
                           /\ \E h \in existing : result' = [result EXCEPT ![p] = Ok(h)]
                      ELSE /\ pc' = [pc EXCEPT ![p] = "hc_insert"]
                           /\ result' = [result EXCEPT ![p] = NoResult]
    /\ UNCHANGED <<intros, hires, placements, audit, notes>>
    /\ UNCHANGED vendorTable

\* a run that records the hire and leaves the attribution scan out
SyncAfterHireNoMatch(p) ==
    /\ p \in SyncSlots /\ pc[p] = "done" /\ call[p].op = "HireCreate"
    /\ sync' = [sync EXCEPT ![p].hiresCreated = @ + 1]
    /\ call' = [call EXCEPT ![p] = [op |-> "Sync"]]
    /\ pc' = [pc EXCEPT ![p] = "sync_delay"]
    /\ UNCHANGED <<intros, hires, placements, audit, notes, consecutiveFailures>>
    /\ UNCHANGED <<loc, result, vendorTable>>

\* hiresService.create has returned a hire: result.hiresCreated++, then
\* placementsService.matchHireToIntroductions(hireId) and its findUnique(hire)
SyncAfterHire(p) ==
    /\ p \in SyncSlots /\ pc[p] = "done" /\ call[p].op = "HireCreate"
    /\ sync' = [sync EXCEPT ![p].hiresCreated = @ + 1]
    /\ call' = [call EXCEPT ![p] = [op |-> "Match", hireId |-> result[p].id]]
    /\ loc' = [loc EXCEPT ![p] = [NoLoc EXCEPT !.hireId = result[p].id]]
    /\ pc' = [pc EXCEPT ![p] = "m_scan"]
    /\ result' = [result EXCEPT ![p] = NoResult]
    /\ UNCHANGED <<intros, hires, placements, audit, notes, consecutiveFailures>>
    /\ UNCHANGED vendorTable

\* matchHireToIntroductions has returned or thrown: a throw is caught by the
\* loop; otherwise if (placementId) result.placementsCreated++, then
\* trackAdvisor (an upsert into a table no other handler reads)
SyncAfterMatch(p) ==
    /\ p \in SyncSlots /\ pc[p] = "done" /\ call[p].op = "Match"
    /\ IF result[p].kind \in ErrorKinds
         THEN SyncCaught(p, sync[p])
         ELSE /\ sync' = [sync EXCEPT ![p].placementsCreated =
                              IF result[p].kind = "ok" THEN @ + 1 ELSE @]
              /\ call' = [call EXCEPT ![p] = [op |-> "Sync"]]
              /\ pc' = [pc EXCEPT ![p] = "sync_delay"]
              /\ UNCHANGED consecutiveFailures
    /\ UNCHANGED <<intros, hires, placements, audit, notes, loc, result>>
    /\ UNCHANGED vendorTable

\* await new Promise((resolve) => setTimeout(resolve, 500))
SyncDelay(p) ==
    /\ pc[p] = "sync_delay"
    /\ SyncAdvance(p, sync[p])
    /\ UNCHANGED <<intros, hires, placements, audit, notes, loc, result>>
    /\ UNCHANGED vendorTable

\* auditService.log of the batch entry, then return result
SyncAudit(p) ==
    /\ pc[p] = "sync_audit"
    /\ audit' = AddEntry(audit, <<"HIRE_SYNC_BATCH", 0, "CREATED">>)
    /\ pc' = [pc EXCEPT ![p] = "done"]
    /\ result' = [result EXCEPT ![p] = Ok(0)]
    /\ sync' = [sync EXCEPT ![p].running = FALSE]
    /\ UNCHANGED <<intros, hires, placements, notes, call, loc, consecutiveFailures>>
    /\ UNCHANGED vendorTable

\* the introduction table when a run starts: up to LedgerIntros OPEN
\* introductions of one or two candidates, made at different times (the first
\* row is candidate 555's)
SyncIntroLedgers ==
    UNION { { s \in [1..n -> { IntroRow(v, crd, conv, ts) :
                               v \in Vendors, crd \in HireCrds,
                               conv \in ConversationIds, ts \in IntroDates }] :
                /\ \A k \in 1..n : /\ s[k].vendorId = LedgerVendor(k)
                                   /\ s[k].conversationId = LedgerConversation(k)
                /\ \A j, k \in 1..n :
                      j # k => s[j].introTimestamp # s[k].introTimestamp
                /\ n > 0 => s[1].candidateCrd = 555 } : n \in 0..LedgerIntros }

\* the counter of a fresh scheduler, of one a failure short of the breaker's
\* threshold, and of one at the threshold
InitialFailures == {0, maxFailures - 1, maxFailures}

InitSync ==
    /\ intros \in SyncIntroLedgers
    /\ hires = << >>
    /\ placements = << >>
    /\ audit = EmptyBag
    /\ notes = EmptyBag
    /\ IdleSlots
    /\ vendorTable = RegisteredVendors
    /\ consecutiveFailures \in InitialFailures

NextSync ==
    \E p \in Procs :
        \/ SyncStart(p)
        \/ SyncAlert(p)
        \/ SyncList(p)
        \/ SyncLookup(p)
        \/ SyncHireFind(p)
        \/ HireCreateInsert(p)
        \/ SyncAfterHire(p)
        \/ MatchScan(p)
        \/ CreateFindIntro(p)
        \/ CreateFindHire(p)
        \/ CreateInsertPlacement(p)
        \/ CreateMarkPlaced(p)
        \/ CreateNotify(p)
        \/ CreateMarkNotified(p)
        \/ SyncAfterMatch(p)
        \/ SyncDelay(p)
        \/ SyncAudit(p)

SpecSync == InitSync /\ [][NextSync]_vars

\* introductions made 13, 12 and 11 calendar months before the day of the run
SyncDates == IntroDates \cup { <<2023, 12, 15, 9>> }

\* the introduction table when a run starts: LedgerIntros OPEN introductions
\* of one candidate made at different times, the oldest possibly outside its
\* partner's window
SyncFairLedgers ==
    { s \in [1..LedgerIntros -> { IntroRow(v, crd, conv, ts) :
                                 v \in Vendors, crd \in Crds,
                                 conv \in ConversationIds, ts \in SyncDates }] :
        /\ \A k \in 1..LedgerIntros : /\ s[k].vendorId = LedgerVendor(k)
                                   /\ s[k].conversationId = LedgerConversation(k)
        /\ \A j, k \in 1..LedgerIntros :
              j # k => s[j].introTimestamp # s[k].introTimestamp }

InitSyncFair ==
    /\ intros \in SyncFairLedgers
    /\ hires = << >>
    /\ placements = << >>
    /\ audit = EmptyBag
    /\ notes = EmptyBag
    /\ IdleSlots
    /\ vendorTable = RegisteredVendors
    /\ consecutiveFailures \in {0, maxFailures}

\* a step of a run that has started: the continuation after one of its awaits
SyncContinue == NextSync /\ \A p \in SyncSlots : pc[p] = "idle" => pc'[p] = "idle"

\* the event loop runs every continuation whose await has settled, and the
\* registry, the data store and the webhooks answer or time out
SpecSyncFair == InitSyncFair /\ [][NextSync]_vars /\ WF_vars(SyncContinue)

-----------------------------------------------------------------------------
(* VendorsService: create, update, rotateApiKey; ApiKeyGuard.canActivate *)

\* prisma.vendor.findFirst({ where: { name } }): the rows it can return
FindVendorByName(name) == { v \in DOMAIN vendorTable : vendorTable[v].name = name }

\* request arrives at POST /api/vendors; first await: the lookup by name
VendorCreateCall(p) ==
    /\ p \in InternalSlots /\ Idle(p)
    /\ \E name \in VendorNames, apiKey \in SuppliedKeys :
        /\ call' = [call EXCEPT ![p] = [op |-> "VendorCreate", name |-> name,
                                        apiKey |-> apiKey]]
        /\ IF FindVendorByName(name) # {}
             THEN /\ pc' = [pc EXCEPT ![p] = "done"]
                  /\ result' = [result EXCEPT ![p] = Err("Conflict")]
             ELSE /\ pc' = [pc EXCEPT ![p] = "vc_insert"]
                  /\ result' = [result EXCEPT ![p] = NoResult]
    /\ UNCHANGED <<intros, hires, placements, audit, notes, loc, syncVars, vendorTable>>

\* prisma.vendor.create (no index makes the name unique), auditService.log
\* (VENDOR CREATED) in the same step, return
VendorCreateInsert(p) ==
    /\ pc[p] = "vc_insert"
    /\ vendorTable' = Append(vendorTable, VendorRow(call[p].name, call[p].apiKey, TRUE))
    /\ audit' = AddEntry(audit, <<"VENDOR", Len(vendorTable) + 1, "CREATED">>)
    /\ pc' = [pc EXCEPT ![p] = "done"]
    /\ result' = [result EXCEPT ![p] = Ok(Len(vendorTable) + 1)]
    /\ UNCHANGED <<intros, hires, placements, notes, call, loc, syncVars>>

\* request arrives at PATCH /api/vendors/:id; first await: findUnique({ id }).
\* "NONE" is an absent field of UpdateVendorDto
VendorUpdateCall(p) ==
    /\ p \in InternalSlots /\ Idle(p)
    /\ \E id \in 1..(Len(RegisteredVendors) + 1),
          name \in VendorNames \cup {"NONE"},
          newApiKey \in SuppliedKeys \cup {"NONE"},
          isActive \in {"true", "false", "NONE"} :
        /\ call' = [call EXCEPT ![p] = [op |-> "VendorUpdate", id |-> id, name |-> name,
                                        newApiKey |-> newApiKey, isActive |-> isActive]]
        /\ IF id \notin DOMAIN vendorTable
             THEN /\ pc' = [pc EXCEPT ![p] = "done"]
                  /\ result' = [result EXCEPT ![p] = Err("NotFound")]
             ELSE /\ pc' = [pc EXCEPT ![p] = "vu_update"]
                  /\ result' = [result EXCEPT ![p] = NoResult]
    /\ UNCHANGED <<intros, hires, placements, audit, notes, loc, syncVars, vendorTable>>

\* prisma.vendor.update({ where: { id }, data: updateData }) with the fields the
\* dto carries, auditService.log(VENDOR UPDATED) in the same step, return
VendorUpdateWrite(p) ==
    /\ pc[p] = "vu_update"
    /\ LET id == call[p].id
           old == vendorTable[id] IN
       vendorTable' = [vendorTable EXCEPT ![id] =
          [name |-> IF call[p].name = "NONE" THEN old.name ELSE call[p].name,
           apiKeyHash |-> IF call[p].newApiKey = "NONE" THEN old.apiKeyHash
                          ELSE HashApiKey(call[p].newApiKey),
           isActive |-> IF call[p].isActive = "NONE" THEN old.isActive
                        ELSE call[p].isActive = "true"]]
    /\ audit' = AddEntry(audit, <<"VENDOR", call[p].id, "UPDATED">>)
    /\ pc' = [pc EXCEPT ![p] = "done"]
    /\ result' = [result EXCEPT ![p] = Ok(call[p].id)]
    /\ UNCHANGED <<intros, hires, placements, notes, call, loc, syncVars>>

\* randomBytes(32).toString('hex'): 256 random bits, a key that no row of the
\* table holds and no other rotation has drawn
GenerateApiKey ==
    { k \in RandomKeys :
        /\ \A v \in DOMAIN vendorTable : vendorTable[v].apiKeyHash # HashApiKey(k)
        /\ \A q \in Procs : call[q].op = "RotateApiKey" => call[q].newApiKey # k }

\* request arrives at POST /api/vendors/:id/rotate-api-key; findUnique({ id }),
\* NotFound, or the new key is generated
RotateApiKeyCall(p) ==
    /\ p \in InternalSlots /\ Idle(p)
    /\ \E id \in 1..(Len(RegisteredVendors) + 1) :
        IF id \notin DOMAIN vendorTable
          THEN /\ call' = [call EXCEPT ![p] = [op |-> "RotateApiKey", id |-> id,
                                               newApiKey |-> "NONE"]]
               /\ pc' = [pc EXCEPT ![p] = "done"]
               /\ result' = [result EXCEPT ![p] = Err("NotFound")]
          ELSE \E k \in GenerateApiKey :
               /\ call' = [call EXCEPT ![p] = [op |-> "RotateApiKey", id |-> id,
                                               newApiKey |-> k]]
               /\ pc' = [pc EXCEPT ![p] = "rk_update"]
               /\ result' = [result EXCEPT ![p] = NoResult]
    /\ UNCHANGED <<intros, hires, placements, audit, notes, loc, syncVars, vendorTable>>

\* prisma.vendor.update({ where: { id }, data: { apiKeyHash } }), auditService.log
\* (API_KEY_ROTATED) in the same step, return { apiKey }
RotateApiKeyWrite(p) ==
    /\ pc[p] = "rk_update"
    /\ vendorTable' = [vendorTable EXCEPT
                          ![call[p].id].apiKeyHash = HashApiKey(call[p].newApiKey)]
    /\ audit' = AddEntry(audit, <<"VENDOR", call[p].id, "UPDATED">>)
    /\ pc' = [pc EXCEPT ![p] = "done"]
    /\ result' = [result EXCEPT ![p] = Ok(call[p].id)]
    /\ UNCHANGED <<intros, hires, placements, notes, call, loc, syncVars>>

\* prisma.vendor.findFirst({ where: { apiKeyHash, isActive: true } }): the
\* vendors the guard can attach to a request that presents apiKey
CanActivate(apiKey) ==
    { v \in DOMAIN vendorTable :
        /\ vendorTable[v].apiKeyHash = HashApiKey(apiKey)
        /\ vendorTable[v].isActive }

\* a partner request presents an API key to ApiKeyGuard
GuardCheck(p) ==
    /\ p \in PartnerSlots /\ Idle(p)
    /\ \E apiKey \in ApiKeys :
        /\ call' = [call EXCEPT ![p] = [op |-> "Auth", apiKey |-> apiKey]]
        /\ IF CanActivate(apiKey) = {}
             THEN result' = [result EXCEPT ![p] = Err("Unauthorized")]
             ELSE \E v \in CanActivate(apiKey) : result' = [result EXCEPT ![p] = Ok(v)]
    /\ pc' = [pc EXCEPT ![p] = "done"]
    /\ UNCHANGED <<intros, hires, placements, audit, notes, loc, syncVars, vendorTable>>

NextVendor ==
    \E p \in Procs :
        \/ VendorCreateCall(p)
        \/ VendorCreateInsert(p)
        \/ VendorUpdateCall(p)
        \/ VendorUpdateWrite(p)
        \/ RotateApiKeyCall(p)
        \/ RotateApiKeyWrite(p)
        \/ GuardCheck(p)

SpecVendor == InitIntro /\ [][NextVendor]_vars

-----------------------------------------------------------------------------
(* Placement create and the attribution scan over partners with placement terms *)

TermsVendors == {"v1", "v2", "v3"}

\* ledgers whose first introduction was made by v3, the others by v1 or v2
TermsIntroLedgers ==
    { s \in [1..LedgerIntros -> { IntroRow(v, crd, conv, ts) :
                                 v \in TermsVendors, crd \in Crds,
                                 conv \in ConversationIds, ts \in IntroDates }] :
        \A k \in 1..LedgerIntros : /\ s[k].vendorId = "v3" <=> k = 1
                                /\ s[k].conversationId = LedgerConversation(k) }

InitTerms ==
    /\ intros \in TermsIntroLedgers
    /\ hires \in InitialHireLedgers
    /\ placements = << >>
    /\ audit = EmptyBag
    /\ notes = EmptyBag
    /\ IdleSlots
    /\ vendorTable = RegisteredVendors
    /\ consecutiveFailures = 0

NextTerms ==
    \E p \in Procs :
        \/ PlacementCreateFee(p)
        \/ CreateFindIntro(p)
        \/ CreateFindHire(p)
        \/ CreateInsertPlacement(p)
        \/ CreateMarkPlaced(p)
        \/ CreateNotify(p)
        \/ CreateMarkNotified(p)
        \/ MatchCall(p)
        \/ MatchScan(p)

SpecTerms == InitTerms /\ [][NextTerms]_vars

-----------------------------------------------------------------------------
(* PlacementsService.update(id, dto) *)

PlacementStatus == {"PENDING_NOTIFY", "NOTIFIED", "INVOICED", "PAID", "DISPUTED"}
\* dto.status is optional
PlacementUpdateInputs == PlacementStatus \cup {"NONE"}

\* request arrives at PATCH /api/placements/:id; first await: findUnique(placement)
PlacementUpdateCall(p) ==
    /\ p \in InternalSlots /\ Idle(p)
    /\ \E id \in 1..LedgerIntros, st \in PlacementUpdateInputs :
        /\ call' = [call EXCEPT ![p] = [op |-> "PlacementUpdate", id |-> id,
                                        status |-> st]]
        /\ IF id \in DOMAIN placements
             THEN /\ pc' = [pc EXCEPT ![p] = "pu_update"]
                  /\ result' = [result EXCEPT ![p] = NoResult]
                  /\ loc' = [loc EXCEPT ![p] =
                        [NoLoc EXCEPT !.placementId = id,
                                      !.oldStatus = placements[id].status]]
             ELSE /\ pc' = [pc EXCEPT ![p] = "done"]
                  /\ result' = [result EXCEPT ![p] = Err("NotFound")]
                  /\ loc' = [loc EXCEPT ![p] = NoLoc]
    /\ UNCHANGED <<intros, hires, placements, audit, notes>>
    /\ UNCHANGED <<syncVars, vendorTable>>

\* prisma.placement.update({ where: { id }, data: { status: dto.status } }) (an
\* absent status writes nothing), auditService.log(STATUS_CHANGED), return
PlacementUpdateWrite(p) ==
    /\ pc[p] = "pu_update"
    /\ LET k == loc[p].placementId IN
        /\ placements' = IF call[p].status = "NONE" THEN placements
                          ELSE [placements EXCEPT ![k].status = call[p].status]
        /\ audit' = AddEntry(audit, <<"PLACEMENT", k, "STATUS_CHANGED">>)
        /\ result' = [result EXCEPT ![p] = Ok(k)]
    /\ pc' = [pc EXCEPT ![p] = "done"]
    /\ UNCHANGED <<intros, hires, notes, call, loc>>
    /\ UNCHANGED <<syncVars, vendorTable>>

-----------------------------------------------------------------------------
(* NotificationsService.retryFailedNotifications() *)

\* prisma.placement.findMany({ where: { status: 'PENDING_NOTIFY' } }): no
\* orderBy, so the rows come in whatever order the data store yields
PendingPlacements ==
    Orderings({ k \in DOMAIN placements : placements[k].status = "PENDING_NOTIFY" })

\* the loop moves to the next placement, or returns successCount
RetryAdvance(p, count) ==
    LET rest == Tail(loc[p].pending) IN
    /\ loc' = [loc EXCEPT ![p].pending = rest, ![p].successCount = count]
    /\ IF rest = << >>
         THEN /\ pc' = [pc EXCEPT ![p] = "done"]
              /\ result' = [result EXCEPT ![p] = Ok(count)]
         ELSE /\ pc' = [pc EXCEPT ![p] = "rt_notify"]
              /\ UNCHANGED result

\* the sweep starts; first await: the findMany
RetryList(p) ==
    /\ p \in SweepSlots /\ Idle(p)
    /\ call' = [call EXCEPT ![p] = [op |-> "Retry"]]
    /\ \E pending \in PendingPlacements :
        /\ loc' = [loc EXCEPT ![p] = [NoLoc EXCEPT !.pending = pending]]
        /\ IF pending = << >>
             THEN /\ pc' = [pc EXCEPT ![p] = "done"]
                  /\ result' = [result EXCEPT ![p] = Ok(0)]
             ELSE /\ pc' = [pc EXCEPT ![p] = "rt_notify"]
                  /\ result' = [result EXCEPT ![p] = NoResult]
    /\ UNCHANGED <<intros, hires, placements, audit, notes>>
    /\ UNCHANGED <<syncVars, vendorTable>>

\* const success = await this.notifyVendorOfPlacement(placement.vendorId, ...)
RetryNotify(p) ==
    /\ pc[p] = "rt_notify"
    /\ LET k == Head(loc[p].pending) IN
       \E outcome \in NotifyVendorOfPlacement(placements[k].vendorId, k) :
        /\ audit' = outcome[2]
        /\ IF outcome[1]
             THEN /\ pc' = [pc EXCEPT ![p] = "rt_mark"]
                  /\ UNCHANGED <<loc, result>>
             ELSE RetryAdvance(p, loc[p].successCount)
    /\ UNCHANGED <<intros, hires, placements, notes, call>>
    /\ UNCHANGED <<syncVars, vendorTable>>

\* if (success) prisma.placement.update({ where: { id: placement.id }, data: {
\* status: 'NOTIFIED' } }); successCount++
RetryMark(p) ==
    /\ pc[p] = "rt_mark"
    /\ LET k == Head(loc[p].pending) IN
        placements' = [placements EXCEPT ![k].status = "NOTIFIED"]
    /\ RetryAdvance(p, loc[p].successCount + 1)
    /\ UNCHANGED <<intros, hires, audit, notes, call>>
    /\ UNCHANGED <<syncVars, vendorTable>>

NextNotify ==
    \E p \in Procs :
        \/ PlacementCreateCall(p)
        \/ CreateFindHire(p)
        \/ CreateInsertPlacement(p)
        \/ CreateMarkPlaced(p)
        \/ CreateNotify(p)
        \/ CreateMarkNotified(p)
        \/ PlacementUpdateCall(p)
        \/ PlacementUpdateWrite(p)
        \/ RetryList(p)
        \/ RetryNotify(p)
        \/ RetryMark(p)

SpecNotify == Init /\ [][NextNotify]_vars

-----------------------------------------------------------------------------
(* Properties *)

PlacementsOf(i) == { k \in DOMAIN placements : placements[k].introductionId = i }

\* C1: for any introduction, at most one placement references it in every
\* reachable state, also when two matchHireToIntroductions / create calls race
\* on the same OPEN introduction.
C1_AtMostOnePlacementPerIntroduction ==
    \A i \in DOMAIN intros : Cardinality(PlacementsOf(i)) <= 1

\* two match calls picked the same introduction while it was OPEN; one has
\* inserted its placement and not yet marked the introduction, the other's
\* insert was rejected by the unique index; no status update has run
C1_Witness ==
    \E p, q \in InternalSlots :
        /\ p # q
        /\ call[p].op = "Match" /\ call[q].op = "Match"
        /\ loc[p].introductionId = loc[q].introductionId
        /\ pc[q] = "pc_update"
        /\ result[p].kind = "UniqueViolation"
        /\ intros[loc[p].introductionId].status = "OPEN"
        /\ \A r \in PartnerSlots : pc[r] = "idle"

\* C2: every placement references an introduction whose status is PLACED, in
\* every reachable state.
C2_PlacementImpliesPlaced ==
    \A k \in DOMAIN placements : intros[placements[k].introductionId].status = "PLACED"

\* C3: every introduction with status PLACED is referenced by a placement, in
\* every reachable state.
C3_PlacedImpliesPlacement ==
    \A i \in DOMAIN intros : intros[i].status = "PLACED" => PlacementsOf(i) # {}

TerminalStatus == {"PLACED", "EXPIRED", "CANCELLED"}

\* C4: introductions are created OPEN, and a status of PLACED, EXPIRED or
\* CANCELLED is never changed again by any step.
C4_StatusMonotonic ==
    [][ /\ \A i \in DOMAIN intros :
              intros[i].status \in TerminalStatus => intros'[i].status = intros[i].status
        /\ \A i \in (DOMAIN intros') \ (DOMAIN intros) : intros'[i].status = "OPEN"
      ]_vars

\* C5: the two writes of Placement create (the placement row, the PLACED
\* status) happen only while the introduction is still OPEN.
C5_PlacedWriteGuarded ==
    [][ \A p \in Procs :
          ( \/ pc[p] = "pc_insert" /\ pc'[p] = "pc_update"
            \/ pc[p] = "pc_update" /\ pc'[p] = "pc_notify" )
          => intros[loc[p].introductionId].status = "OPEN"
      ]_vars

RowsOfTriple(tbl, v, crd, conv) ==
    { i \in DOMAIN tbl : /\ tbl[i].vendorId = v
                         /\ tbl[i].candidateCrd = crd
                         /\ tbl[i].conversationId = conv }

\* C6: an Introduction create call that arrives when a row with its
\* (partner, candidateId, conversationRef) exists returns that row's id and
\* changes nothing: tables, audit log and outbound effects stay as they are,
\* and the triple keeps exactly one row with exactly one audit CREATED entry.
C6_IdempotentCreate ==
    [][ \A p \in Procs :
          (pc[p] = "idle" /\ call'[p].op = "IntroCreate")
          => LET rows == RowsOfTriple(intros, call'[p].vendorId,
                                      call'[p].candidateCrd, call'[p].conversationId)
             IN rows # {} =>
                  /\ Cardinality(rows) = 1
                  /\ pc'[p] = "done"
                  /\ result'[p].kind = "ok" /\ result'[p].id \in rows
                  /\ intros' = intros /\ hires' = hires /\ placements' = placements
                  /\ audit' = audit /\ notes' = notes
                  /\ \A i \in rows : CopiesIn(<<"INTRODUCTION", i, "CREATED">>, audit') = 1
      ]_vars

\* the first call has inserted the row, audited and notified, and returned;
\* the repeated call has returned the same id from the lookup
C6_Witness ==
    \E p, q \in InternalSlots :
        /\ p # q
        /\ call[p].op = "IntroCreate" /\ call[q].op = "IntroCreate"
        /\ pc[p] = "done" /\ pc[q] = "done"
        /\ loc[q].introductionId # 0 /\ result[q] = Ok(loc[q].introductionId)
        /\ loc[p].introductionId = 0 /\ result[p] = result[q]
        /\ Len(intros) = 1
        /\ CopiesIn(<<"INTRODUCTION", 1, "CREATED">>, audit) = 1
        /\ CopiesIn(<<"SLACK_INTRODUCTION", 1>>, notes) = 1

\* C7: no Introduction create call ends in an error.
C7_NoCreateError ==
    \A p \in Procs : call[p].op = "IntroCreate" => result[p].kind \notin ErrorKinds

\* C8: at most one hire row exists for each (candidateId, firmEntity, hireDate),
\* in every reachable state.
C8_OneHirePerTriple ==
    \A a, b \in DOMAIN hires :
        ( /\ hires[a].crdNumber = hires[b].crdNumber
          /\ hires[a].firmEntity = hires[b].firmEntity
          /\ hires[a].hireDate = hires[b].hireDate ) => a = b


\* the acceptance rule in the words of the attribution design: calendar-month
\* difference at most the window, and the hire not before the introduction
DateNotBefore(a, b) ==
    \/ a[1] > b[1]
    \/ a[1] = b[1] /\ a[2] > b[2]
    \/ a[1] = b[1] /\ a[2] = b[2] /\ a[3] > b[3]
    \/ a[1] = b[1] /\ a[2] = b[2] /\ a[3] = b[3] /\ a[4] >= b[4]

Attributable(introTs, window, hireDate) ==
    /\ (hireDate[1] - introTs[1]) * 12 + (hireDate[2] - introTs[2]) <= window
    /\ DateNotBefore(hireDate, introTs)

\* the OPEN introductions of the hire's candidate that the rule accepts
AcceptedOpen(h) ==
    { i \in DOMAIN intros :
        /\ intros[i].candidateCrd = hires[h].crdNumber
        /\ intros[i].status = "OPEN"
        /\ Attributable(intros[i].introTimestamp,
                        AttributionMonths(intros[i].vendorId), hires[h].hireDate) }

\* C9: the scan of matchHireToIntroductions goes on to create a placement for
\* an OPEN introduction of the hire's candidate exactly when one satisfies
\* monthsDiff <= window and hireDate >= introDate, and the introduction it
\* takes satisfies it; with an introduction of 2024-01-15 and a 12 month
\* window a hire of 2025-01-15 is attributable and one of 2025-02-15 is not,
\* whatever the days of the month.
C9_WindowBoundary ==
    [][ /\ \A p \in Procs :
              (pc[p] = "m_scan" /\ pc'[p] # "m_scan")
              => IF AcceptedOpen(loc[p].hireId) = {}
                   THEN pc'[p] = "done" /\ result'[p] = Null
                   ELSE /\ pc'[p] = "pc_intro"
                        /\ loc'[p].introductionId \in AcceptedOpen(loc[p].hireId)
        /\ \A d1, d2 \in {1, 15, 28} :
              /\ Attributable(<<2024, 1, d1, 9>>, 12, <<2025, 1, d2, 0>>)
              /\ ~Attributable(<<2024, 1, d1, 9>>, 12, <<2025, 2, d2, 0>>)
      ]_vars

\* a match call has placed the introduction of 2024-01-15 of the partner with
\* the 12 month window against the hire of 2025-01-15 (difference 12)
C9_Witness ==
    \E p \in InternalSlots :
        /\ call[p].op = "Match" /\ pc[p] = "done" /\ result[p].kind = "ok"
        /\ LET k == result[p].id
               i == placements[k].introductionId IN
            /\ intros[i].introTimestamp = <<2024, 1, 15, 9>>
            /\ AttributionMonths(intros[i].vendorId) = 12
            /\ hires[placements[k].hireId].hireDate = <<2025, 1, 15, 0>>
            /\ intros[i].status = "PLACED"

\* C10: the introduction a match call takes is an oldest accepted one among
\* the OPEN introductions of the candidate, the scan itself changes no
\* introduction, a match call changes the status of no introduction but the
\* one it took, and it inserts at most one placement.
C10_OldestFirst ==
    [][ \A p \in Procs :
          /\ (pc[p] = "m_scan" /\ pc'[p] = "pc_intro")
             => /\ loc'[p].introductionId \in AcceptedOpen(loc[p].hireId)
                /\ \A j \in AcceptedOpen(loc[p].hireId) :
                      DateNotBefore(intros[j].introTimestamp,
                                    intros[loc'[p].introductionId].introTimestamp)
                /\ intros' = intros
          /\ (call[p].op = "Match" /\ pc'[p] # pc[p])
             => /\ \A i \in DOMAIN intros :
                      i # loc[p].introductionId => intros'[i] = intros[i]
                /\ loc'[p].created <= 1
                /\ Len(placements') <= Len(placements) + 1
      ]_vars

\* two OPEN introductions of the candidate, both within their windows, T1 < T2:
\* a match call has returned its one placement, the T1 introduction is PLACED
\* and the T2 introduction is still OPEN
C10_Witness ==
    \E p \in InternalSlots :
        /\ call[p].op = "Match" /\ pc[p] = "done" /\ result[p].kind = "ok"
        /\ Len(placements) = 1
        /\ \A q \in Procs \ {p} : pc[q] = "idle"
        /\ \E i, j \in DOMAIN intros :
            /\ placements[result[p].id].introductionId = i
            /\ intros[i].status = "PLACED" /\ intros[j].status = "OPEN"
            /\ TimeValue(intros[i].introTimestamp) < TimeValue(intros[j].introTimestamp)
            /\ Attributable(intros[j].introTimestamp,
                            AttributionMonths(intros[j].vendorId),
                            hires[loc[p].hireId].hireDate)
            /\ i > j

\* C11: no placement links an introduction to a hire dated before the
\* introduction's timestamp, whether it came from matchHireToIntroductions or
\* from a direct Placement create call.
C11_NoHireBeforeIntroduction ==
    \A k \in DOMAIN placements :
        DateNotBefore(placements[k].hireDate,
                      intros[placements[k].introductionId].introTimestamp)

PlacementsOfHire(h) == { k \in DOMAIN placements : placements[k].hireId = h }

\* C13: each hire is referenced by at most one placement, in every reachable
\* state, also after matchHireToIntroductions runs again for the same hire.
C13_AtMostOnePlacementPerHire ==
    \A h \in DOMAIN hires : Cardinality(PlacementsOfHire(h)) <= 1

\* the calendar-month difference exceeds the window of the introduction's partner
BeyondWindow(introRow, hireRow) ==
    (hireRow.hireDate[1] - introRow.introTimestamp[1]) * 12
        + (hireRow.hireDate[2] - introRow.introTimestamp[2])
      > AttributionMonths(introRow.vendorId)

\* C12: a Placement create call fails with NotFound when the introduction or
\* the hire is unknown and with a business-rule error when the introduction is
\* not OPEN, the CRDs differ or the month difference exceeds the window, and
\* goes on otherwise; its validation steps, failing or not, write no
\* placement, no introduction status, no audit entry and no notification.
C12_CreateValidation ==
    [][ \A p \in Procs :
          /\ (pc[p] = "idle" /\ call'[p].op = "PlacementCreate")
             => LET i == call'[p].introductionId IN
                /\ i \notin DOMAIN intros
                     => pc'[p] = "done" /\ result'[p] = Err("NotFound")
                /\ (i \in DOMAIN intros /\ intros[i].status # "OPEN")
                     => pc'[p] = "done" /\ result'[p] = Err("BadRequest")
                /\ (i \in DOMAIN intros /\ intros[i].status = "OPEN")
                     => pc'[p] = "pc_hire"
                /\ intros' = intros /\ placements' = placements
                /\ audit' = audit /\ notes' = notes
          /\ (pc[p] = "pc_hire" /\ pc'[p] # "pc_hire")
             => LET i == loc[p].introductionId
                    h == loc[p].hireId IN
                /\ h \notin DOMAIN hires
                     => pc'[p] = "done" /\ result'[p] = Err("NotFound")
                /\ (h \in DOMAIN hires
                      /\ ( \/ intros[i].candidateCrd # hires[h].crdNumber
                           \/ BeyondWindow(intros[i], hires[h]) ))
                     => pc'[p] = "done" /\ result'[p] = Err("BadRequest")
                /\ (h \in DOMAIN hires
                      /\ intros[i].candidateCrd = hires[h].crdNumber
                      /\ ~BeyondWindow(intros[i], hires[h]))
                     => pc'[p] = "pc_insert"
                /\ loc[p].created = 0
                /\ intros' = intros /\ placements' = placements
                /\ audit' = audit /\ notes' = notes
      ]_vars

\* two direct create calls against OPEN introductions have failed, one for a
\* hire of another candidate and one for an unknown hire; nothing was written
C12_Witness ==
    \E p, q \in InternalSlots :
        /\ call[p].op = "PlacementCreate" /\ call[q].op = "PlacementCreate"
        /\ pc[p] = "done" /\ result[p] = Err("BadRequest")
        /\ pc[q] = "done" /\ result[q] = Err("NotFound")
        /\ call[p].hireId \in DOMAIN hires /\ call[q].hireId \notin DOMAIN hires
        /\ call[p].introductionId \in DOMAIN intros
        /\ call[q].introductionId \in DOMAIN intros
        /\ intros[call[p].introductionId].candidateCrd # hires[call[p].hireId].crdNumber
        /\ \A i \in DOMAIN intros : intros[i].status = "OPEN"
        /\ placements = << >> /\ audit = EmptyBag /\ notes = EmptyBag

\* C14: when the create-hire endpoint has returned a hire it newly created, no
\* OPEN introduction of the hire's candidate that accepts the hire is left
\* unplaced: the endpoint has run the attribution scan for the new hire.
C14_OnboardingMatches ==
    \A p \in Procs :
        (call[p].op = "HireCreate" /\ pc[p] = "done" /\ loc[p].created = 1)
        => AcceptedOpen(loc[p].hireId) = {}

SyncAlertsSent == CopiesIn(<<"SLACK_SYNC_FAILURE", 0>>, notes)

\* C15: a run that starts when the failure counter is 5 or more goes straight
\* to the alert and returns: it looks no candidate up in the registry, writes no
\* hire, placement or introduction, sends one alert and returns a summary of
\* zeros.
C15_BreakerSkipsRun ==
    [][ \A p \in SyncSlots :
          /\ (pc[p] = "idle" /\ pc'[p] # "idle" /\ consecutiveFailures >= 5)
             => /\ pc'[p] = "sync_alert"
                /\ sync'[p].startFailures = consecutiveFailures
          /\ (sync[p].startFailures >= 5 /\ pc[p] # "idle" /\ pc'[p] # pc[p])
             => /\ pc[p] = "sync_alert" /\ pc'[p] = "done" /\ call'[p].op = "Sync"
                /\ notes' = AddEntry(notes, <<"SLACK_SYNC_FAILURE", 0>>)
                /\ intros' = intros /\ hires' = hires /\ placements' = placements
                /\ consecutiveFailures' = consecutiveFailures
                /\ sync'[p].looked = << >>
                /\ sync'[p].totalFetched = 0 /\ sync'[p].newAdvisors = 0
                /\ sync'[p].hiresCreated = 0 /\ sync'[p].placementsCreated = 0
      ]_vars

\* one run started at 4 failures and failed to obtain the candidate list; the
\* next run started at 5, sent its alert and returned without a lookup
C15_Witness ==
    \E p, q \in SyncSlots :
        /\ p # q
        /\ sync[q].startFailures = 4 /\ pc[q] = "done"
        /\ sync[q].errors = <<SyncError("sync", 0)>>
        /\ sync[p].startFailures = 5 /\ pc[p] = "done" /\ call[p].op = "Sync"
        /\ sync[p].looked = << >>
        /\ SyncAlertsSent = 2
        /\ hires = << >> /\ placements = << >>
        /\ OpenIntroductions # {}

\* C16: a run that obtains the candidate list and gets through the
\* per-candidate handling - no candidate, or the last candidate done - leaves
\* the failure counter at zero; a run that fails to obtain the list adds
\* exactly one to it and goes on to the alert; nothing else changes it.
C16_CounterResetOrIncrement ==
    [][ /\ \A p \in SyncSlots :
              /\ (pc[p] = "sync_list" /\ pc'[p] = "sync_alert")
                 => consecutiveFailures' = consecutiveFailures + 1
              /\ (pc[p] = "sync_list" /\ pc'[p] = "done")
                 => consecutiveFailures' = 0
              /\ (pc[p] # "sync_audit" /\ pc'[p] = "sync_audit")
                 => consecutiveFailures' = 0
        /\ consecutiveFailures' # consecutiveFailures
             => \E p \in SyncSlots :
                   \/ pc[p] = "sync_list" /\ pc'[p] # "sync_list"
                   \/ pc[p] # "sync_audit" /\ pc'[p] = "sync_audit"
      ]_vars

NoDuplicates(seq) == \A a, b \in DOMAIN seq : a # b => seq[a] # seq[b]
Elements(seq) == { seq[k] : k \in DOMAIN seq }

C18_SingleRun ==
    Cardinality({ p \in SyncSlots : sync[p].running }) <= 1

\* C19: no two rows of the vendor table hold the same name, in every reachable
\* state.
C19_UniqueVendorName ==
    \A a, b \in DOMAIN vendorTable :
        vendorTable[a].name = vendorTable[b].name => a = b

\* the keys that authenticate as vendor v in the table tbl
ValidKeys(tbl, v) ==
    { k \in ApiKeys : tbl[v].isActive /\ tbl[v].apiKeyHash = HashApiKey(k) }

\* C20: in every state exactly one key authenticates as each active partner;
\* the write of a rotation turns the partner's valid key from the old one into
\* the newly generated one in a single step, the old key being rejected and the
\* new one accepted right after it; a guard check accepts a key only for a
\* partner it is valid for.
C20_AtomicRotation ==
    [][ /\ \A v \in DOMAIN vendorTable' :
              vendorTable'[v].isActive => Cardinality(ValidKeys(vendorTable', v)) = 1
        /\ \A p \in Procs :
              /\ (pc[p] = "rk_update" /\ pc'[p] = "done")
                 => LET v == call[p].id IN
                    /\ vendorTable[v].apiKeyHash # vendorTable'[v].apiKeyHash
                    /\ vendorTable[v].isActive
                         => /\ ValidKeys(vendorTable', v) = {call[p].newApiKey}
                            /\ ValidKeys(vendorTable, v) \cap ValidKeys(vendorTable', v) = {}
                            /\ v \in CanActivate(call[p].newApiKey)'
                            /\ \A k \in ValidKeys(vendorTable, v) : v \notin CanActivate(k)'
              /\ (pc[p] = "idle" /\ call'[p].op = "Auth" /\ result'[p].kind = "ok")
                 => call'[p].apiKey \in ValidKeys(vendorTable, result'[p].id)
      ]_vars

\* a rotation of the first partner's key has returned; the guard then
\* rejected the old key k1
C20_Witness ==
    \E p \in InternalSlots, g \in PartnerSlots :
        /\ call[p].op = "RotateApiKey" /\ pc[p] = "done" /\ result[p] = Ok(1)
        /\ call[p].newApiKey \in RandomKeys
        /\ ValidKeys(vendorTable, 1) = {call[p].newApiKey}
        /\ call[g].op = "Auth" /\ call[g].apiKey = "k1"
        /\ result[g] = Err("Unauthorized")
        /\ \A q \in InternalSlots \ {p} : pc[q] = "idle"



\* the fee the resolution order of the contract yields: the override when one
\* is supplied, otherwise the partner's flat fee when set, otherwise zero
ContractFee(override, v) ==
    IF override # Undefined THEN override
    ELSE IF VendorFlatFee(v) # Undefined THEN VendorFlatFee(v)
    ELSE 0

\* C21: the row that Placement create inserts carries the fee resolved in the
\* order override (0 included) > partner's flat fee > zero, a fee percentage
\* resolving to zero; no later step changes a persisted fee
C21_FeeResolution ==
    [][ /\ \A p \in InternalSlots :
            (pc[p] = "pc_insert" /\ pc'[p] = "pc_update") =>
                /\ Len(placements') = Len(placements) + 1
                /\ placements'[Len(placements')].feeAmount =
                      ContractFee(loc[p].feeAmount,
                                  intros[loc[p].introductionId].vendorId)
        /\ \A k \in DOMAIN placements :
            placements'[k].feeAmount = placements[k].feeAmount ]_vars

\* an override of 0 was persisted for the partner with a flat fee, and the
\* partner with only a fee percentage got a fee of zero without an override
C21_Witness ==
    \E a, b \in DOMAIN placements :
        /\ placements[a].vendorId = "v2" /\ placements[a].feeAmount = 0
        /\ placements[b].vendorId = "v3" /\ placements[b].feeAmount = 0
        /\ \E p \in InternalSlots :
            /\ call[p].op = "PlacementCreate" /\ loc[p].placementId = b
            /\ loc[p].feeAmount = Undefined

\* the window the partner configured, the default of 12 when none is configured
ConfiguredWindow(v) ==
    IF VendorWindow(v) # Undefined THEN VendorWindow(v)
    ELSE DefaultAttributionWindowMonths

\* C23: every placement lies within the window its introduction's partner
\* configured (0 included), or within 12 months when the partner configured none
C23_ConfiguredWindowApplied ==
    \A k \in DOMAIN placements :
        LET i == placements[k].introductionId IN
        MonthsDiff(intros[i].introTimestamp, placements[k].hireDate)
            <= ConfiguredWindow(intros[i].vendorId)

\* C24: a step that applies a notification outcome (the update of Placement
\* create after a delivered notification, or that of the retry sweep) changes a
\* placement's status only from PENDING_NOTIFY to NOTIFIED
C24_NotificationOnlyAdvancesPending ==
    [][ \A p \in Procs :
            (pc[p] \in {"pc_notified", "rt_mark"} /\ pc'[p] # pc[p]) =>
                \A k \in DOMAIN placements :
                    placements'[k].status # placements[k].status =>
                        /\ placements[k].status = "PENDING_NOTIFY"
                        /\ placements'[k].status = "NOTIFIED" ]_vars


\* the steps of Placement create between its call and its return
CreateSteps == {"pc_intro", "pc_hire", "pc_insert", "pc_update", "pc_notify", "pc_notified"}

C25_SummaryExact ==
    [][ \A p \in SyncSlots :
          /\ (pc[p] = "sync_list" /\ pc'[p] \in {"sync_lookup", "done"}) =>
                sync'[p].totalFetched =
                    Cardinality({ intros[i].candidateCrd : i \in OpenIntroductions })
          /\ (pc[p] = "done" /\ call[p].op = "HireCreate" /\ pc'[p] # pc[p]) =>
                sync'[p].hiresCreated = sync[p].hiresCreated + loc[p].created
          /\ (pc[p] = "done" /\ call[p].op = "Match" /\ pc'[p] # pc[p]) =>
                sync'[p].placementsCreated = sync[p].placementsCreated + loc[p].created
      ]_vars

\* C26: once the failure counter has reached the threshold no step changes it
\* and no step calls the registry
C26_BreakerStaysOpen ==
    [][ CircuitOpen(consecutiveFailures) =>
          /\ consecutiveFailures' = consecutiveFailures
          /\ \A p \in SyncSlots : sync'[p].looked = sync[p].looked ]_vars

\* the placements that attribute the hiring of a candidate
PlacementsOfCandidate(crd) ==
    { k \in DOMAIN placements : placements[k].candidateCrd = crd }

\* C27: across reconciliation runs the hiring of a candidate is attributed to
\* at most one introduction
C27_OneAttributionPerHiring ==
    \A crd \in HireCrds : Cardinality(PlacementsOfCandidate(crd)) <= 1


\* a run has returned its summary
RunReturned(p) == pc[p] = "done" /\ call[p].op = "Sync"

\* the candidate the run is working on has an entry in the run's error list
CandidateFailed(p, crd) ==
    \E k \in DOMAIN sync[p].errors : sync[p].errors[k] = SyncError("candidate", crd)

\* the OPEN introductions of the candidate made before the day of the run and
\* within their partner's window on that day
EligibleOpen(crd) ==
    { i \in DOMAIN intros :
        /\ intros[i].candidateCrd = crd
        /\ intros[i].status = "OPEN"
        /\ intros[i].introTimestamp # Today
        /\ Attributable(intros[i].introTimestamp,
                        ConfiguredWindow(intros[i].vendorId), Today) }

\* the oldest of them, 0 when there is none
OldestEligible(crd) ==
    IF EligibleOpen(crd) = {} THEN 0
    ELSE CHOOSE i \in EligibleOpen(crd) :
            \A j \in EligibleOpen(crd) :
                DateNotBefore(intros[j].introTimestamp, intros[i].introTimestamp)

C30_PartnerOwnsIntroductions ==
    [][ \A p \in PartnerSlots :
          /\ (pc[p] = "ic_insert" /\ Len(intros') = Len(intros) + 1) =>
                intros'[Len(intros')].vendorId = CurrentVendor(p)
          /\ (pc[p] = "idle" /\ call'[p].op \in {"FindOne", "UpdateStatus"}
                /\ intros[call'[p].id].vendorId # CurrentVendor(p)) =>
                /\ pc'[p] = "done" /\ result'[p] = Err("NotFound")
                /\ intros' = intros /\ audit' = audit
          /\ pc'[p] # pc[p] =>
                \A k \in DOMAIN intros :
                    intros'[k] # intros[k] => intros[k].vendorId = CurrentVendor(p)
      ]_vars

\* a partner asked for, or tried to update, an OPEN introduction of another
\* partner: NotFound, the introduction is as it was and nothing was audited
C30_Witness ==
    \E p \in PartnerSlots :
        /\ call[p].op \in {"FindOne", "UpdateStatus"}
        /\ pc[p] = "done" /\ result[p] = Err("NotFound")
        /\ intros[call[p].id].vendorId # CurrentVendor(p)
        /\ intros[call[p].id].status = "OPEN"
        /\ audit = EmptyBag

====
